---- MODULE Spec2Model ----
(***************************************************************************)
(* A model of the as-any crate (src/src/lib.rs): trait objects over the    *)
(* AsAny / Any hierarchies and over a user-declared `Custom: AsAny`        *)
(* hierarchy, the checked and unchecked downcasts of Downcast and          *)
(* UncheckedAnyExt, IntoBox, and AsAny::type_name.                         *)
(*                                                                         *)
(* A value lives at an address and has a concrete type and a payload.  A   *)
(* trait object is a fat pointer: the data address, the vtable of the      *)
(* concrete type it was unsized from, and the static `dyn` type it is      *)
(* seen through.  Calls of trait methods on a trait object dispatch        *)
(* through that vtable to the blanket impls of lines 43 and 75.            *)
(***************************************************************************)
EXTENDS Integers, Sequences, FiniteSets, TLC

\* ---------------------------------------------------------------- bounds
MaxAddr == 2
MaxVal == 1
NThreads == 2

Addr == 1..MaxAddr
Vals == 0..MaxVal
Threads == 1..NThreads

\* ----------------------------------------------------------------- types
\* Concrete 'static types of one build.  The last two are the types of two
\* closures written in the same function `main`: distinct types.
Types == {"i32", "String", "closure#0", "closure#1"}

\* core::any::TypeId::of::<T>(): unique per concrete type.
TypeIdOf(t) ==
  CASE t = "i32" -> 11
    [] t = "String" -> 12
    [] t = "closure#0" -> 13
    [] t = "closure#1" -> 14
    [] OTHER -> 0

\* The static trait-object types: `dyn Base (+ Send) (+ Sync)`.
Hier == [base : {"Any", "AsAny", "Custom"}, send : BOOLEAN, sync : BOOLEAN]
NoHier == [base |-> "-", send |-> FALSE, sync |-> FALSE]
Bare(b) == [base |-> b, send |-> FALSE, sync |-> FALSE]

\* The hierarchies the private macro is invoked for (lines 182-190).
Implemented == {h \in Hier : h.base \in {"Any", "AsAny"}}

\* `impl Downcast for dyn AsAny ...` (lines 192-195) and the declaration a
\* user writes for the own hierarchy (lines 16-19).
ImplDowncast == {h \in Hier : h.base \in {"AsAny", "Custom"}}

\* dyn types with AsAny as a supertrait: their vtable holds AsAny's methods.
HasAsAny == {h \in Hier : h.base \in {"AsAny", "Custom"}}

\* -------------------------------------------------------------- pointers
None == << >>
Some(x) == << x >>

\* A thin reference &T / &mut T / Box<T>: address and static pointee type.
Thin(a, t) == [data |-> a, ty |-> t]

\* A fat pointer to a trait object.  kind: "&", "&mut" or "Box".
Fat(a, vt, h, k) == [data |-> a, vtable |-> vt, hier |-> h, kind |-> k]
NoRef == Fat(0, "-", NoHier, "none")

\* A `&dyn core::any::Any`: what as_any returns.
StdFat(a, vt) == [data |-> a, vtable |-> vt]

VARIABLES
  mem,      \* Addr -> [ty, val]: the bytes at an address and their type
  owners,   \* Addr -> the set of owning handles of the value there
  drops,    \* how many times the current value's destructor has run
  r,        \* the trait-object reference or box the program holds
  res,      \* the last call and what it returned
  prev,     \* the type_name call before the last one
  v0,       \* the payload the current value was constructed with
  lastw,    \* the payload last written through a downcast_mut result
  ub,       \* a caller broke an unsafe fn's contract
  tref,     \* Threads -> the shared trait-object reference a thread holds
  th,       \* Threads -> the thread's call in progress and its locals
  mem0      \* the memory as it was when the threads took their references

vars == << mem, owners, drops, r, res, prev, v0, lastw, ub, tref, th, mem0 >>

Free == [ty |-> "-", val |-> 0]
NoRes == [op |-> "-", T |-> "-", b |-> FALSE, ret |-> None, read |-> -1,
          name |-> << >>, form |-> "-", hier |-> NoHier, before |-> -1]
NoPrev == [ty |-> "-", name |-> << >>, val |-> -1]
Idle == [pc |-> "idle", op |-> "-", T |-> "-", any |-> StdFat(0, "-"),
         tid |-> 0, b |-> FALSE, ret |-> None, name |-> << >>]

Init ==
  /\ mem = [a \in Addr |-> Free]
  /\ owners = [a \in Addr |-> {}]
  /\ drops = 0
  /\ r = NoRef
  /\ res = NoRes
  /\ prev = NoPrev
  /\ v0 = 0
  /\ lastw = -1
  /\ ub = FALSE
  /\ tref = [t \in Threads |-> NoRef]
  /\ th = [t \in Threads |-> Idle]
  /\ mem0 = [a \in Addr |-> Free]

Live(a) == owners[a] # {}

\* ------------------------------------------------------------ AsAny impl
\* impl<T: StdAny> AsAny for T, reached through the vtable of `self`.
\* Faulty variant: the vtable of the static `dyn` type instead of the concrete one.
as_any_static(self) == StdFat(self.data, "dyn")

as_any(self) == StdFat(self.data, self.vtable)

as_any_mut(self) == StdFat(self.data, self.vtable)

as_my_any(self) == Fat(self.data, self.vtable, Bare("Any"), "&")

as_my_any_mut(self) == Fat(self.data, self.vtable, Bare("Any"), "&mut")

\* core::any: <dyn Any>::is, downcast_ref, downcast_mut, which Downcast
\* forwards to: the vtable's type_id() against TypeId::of::<T>().
StdAny_is(any, T) == TypeIdOf(any.vtable) = TypeIdOf(T)

\* Faulty variant: the type check is skipped.
StdAny_downcast_ref_nocheck(any, T) == Some(Thin(any.data, T))

\* Faulty variant: a reference to a copy of the value, at the next address.
StdAny_downcast_mut_copy(any, T) ==
  IF StdAny_is(any, T) THEN Some(Thin((any.data % MaxAddr) + 1, T)) ELSE None

StdAny_downcast_ref(any, T) ==
  IF StdAny_is(any, T) THEN Some(Thin(any.data, T)) ELSE None

StdAny_downcast_mut(any, T) ==
  IF StdAny_is(any, T) THEN Some(Thin(any.data, T)) ELSE None

\* ------------------------------------------------------------- Downcast
\* Faulty variant: only the built-in hierarchy reaches the concrete type's impl.
Downcast_is_builtin(self, T) ==
  self.hier.base = "AsAny" /\ StdAny_is(as_any(self), T)

Downcast_is(self, T) == StdAny_is(as_any(self), T)

Downcast_downcast_ref(self, T) == StdAny_downcast_ref(as_any(self), T)

Downcast_downcast_mut(self, T) == StdAny_downcast_mut(as_any_mut(self), T)

\* ------------------------------------------------------ caller's program
\* let x: T = v;
Construct(t, v, a) ==
  /\ ~ub
  /\ \A b \in Addr : ~Live(b)
  /\ r = NoRef
  /\ drops < 2
  /\ mem' = [mem EXCEPT ![a] = [ty |-> t, val |-> v]]
  /\ owners' = [owners EXCEPT ![a] = {"let"}]
  /\ drops' = 0
  /\ v0' = v
  /\ lastw' = -1
  /\ res' = NoRes
  /\ UNCHANGED << r, prev, ub, tref, th, mem0 >>

\* let y: &dyn H = &x;  or  &mut x: the unsizing coercion picks T's vtable.
Coerce(a, h, k) ==
  /\ ~ub
  /\ r = NoRef
  /\ owners[a] = {"let"}
  /\ r' = Fat(a, mem[a].ty, h, k)
  /\ res' = NoRes
  /\ UNCHANGED << mem, owners, drops, prev, v0, lastw, ub, tref, th, mem0 >>

\* y.is::<T>()
Is(T) ==
  /\ ~ub
  /\ r.kind \in {"&", "&mut", "Box"}
  /\ r.hier \in ImplDowncast
  /\ res' = [NoRes EXCEPT !.op = "is", !.T = T, !.b = Downcast_is(r, T)]
  /\ UNCHANGED << mem, owners, drops, r, prev, v0, lastw, ub, tref, th, mem0 >>

\* What the caller expects to read: the last write, else the initial payload.
Expected == IF lastw = -1 THEN v0 ELSE lastw

\* *p for a thin reference p.
Read(p) == mem[p.data].val

ReadOpt(o) == IF o = None THEN -1 ELSE Read(o[1])

\* y.downcast_ref::<T>()
DowncastRef(T) ==
  /\ ~ub
  /\ r.kind \in {"&", "&mut", "Box"}
  /\ r.hier \in ImplDowncast
  /\ LET o == Downcast_downcast_ref(r, T) IN
       res' = [NoRes EXCEPT !.op = "downcast_ref", !.T = T, !.ret = o,
                            !.read = ReadOpt(o), !.before = mem[r.data].val]
  /\ UNCHANGED << mem, owners, drops, r, prev, v0, lastw, ub, tref, th, mem0 >>

\* y.downcast_mut::<T>()
DowncastMut(T) ==
  /\ ~ub
  /\ r.kind \in {"&mut", "Box"}
  /\ r.hier \in ImplDowncast
  /\ LET o == Downcast_downcast_mut(r, T) IN
       res' = [NoRes EXCEPT !.op = "downcast_mut", !.T = T, !.ret = o,
                            !.read = ReadOpt(o), !.before = mem[r.data].val]
  /\ UNCHANGED << mem, owners, drops, r, prev, v0, lastw, ub, tref, th, mem0 >>

\* *p = v; through the &mut T the last call returned.
Write(v) ==
  /\ ~ub
  /\ res.op \in {"downcast_mut", "downcast_mut_unchecked"}
  /\ res.ret # None
  /\ r.kind \in {"&mut", "Box"}
  /\ LET p == res.ret[1] IN
       /\ mem' = [mem EXCEPT ![p.data].val = v]
       /\ res' = [res EXCEPT !.read = v]
  /\ lastw' = v
  /\ UNCHANGED << owners, drops, r, prev, v0, ub, tref, th, mem0 >>

\* The borrow y ends.
Release ==
  /\ ~ub
  /\ r.kind \in {"&", "&mut"}
  /\ r' = NoRef
  /\ res' = NoRes
  /\ UNCHANGED << mem, owners, drops, prev, v0, lastw, ub, tref, th, mem0 >>

\* -------------------------------------------------------- UncheckedAnyExt
\* implement!: &*(self as *const Self as *const T): the data pointer, retyped.
\* Faulty variant: the address of the fat pointer is cast, not its data pointer.
UncheckedAnyExt_downcast_ref_unchecked_addr(self, T) ==
  Thin((self.data % MaxAddr) + 1, T)

UncheckedAnyExt_downcast_ref_unchecked(self, T) == Thin(self.data, T)

UncheckedAnyExt_downcast_mut_unchecked(self, T) == Thin(self.data, T)

\* Faulty variant: the raw pointer is taken from a borrow; the box stays an owner.
Box_into_raw_borrowed(own, self) == own

\* Box::into_raw(self): the box gives up the allocation it owned.
Box_into_raw(own, self) == [own EXCEPT ![self.data] = @ \ {"Box<dyn>"}]

\* Box::from_raw(p as *mut T): a Box<T> owning the allocation at p.
Box_from_raw(own, p) == [own EXCEPT ![p.data] = @ \cup {"Box<T>"}]

UncheckedAnyExt_downcast_unchecked(self, T) == Thin(self.data, T)

\* Box::new(self): a fresh allocation b takes the bytes moved out of a.
IntoBox_into_box(a, b, h) == Fat(b, mem[a].ty, h, "Box")

\* Downcast's unchecked methods forward through as_my_any to dyn Any's.
Downcast_downcast_ref_unchecked(self, T) ==
  UncheckedAnyExt_downcast_ref_unchecked(as_my_any(self), T)

Downcast_downcast_mut_unchecked(self, T) ==
  UncheckedAnyExt_downcast_mut_unchecked(as_my_any_mut(self), T)

\* The traits through which a method of a `dyn h` can be called.
Traits == {"Downcast", "UncheckedAnyExt"}

\* Faulty variant: Downcast without its unchecked default methods.
Via_nodefault(h) == {tr \in Traits : tr = "UncheckedAnyExt" /\ h \in Implemented}

Via(h) == {tr \in Traits : \/ tr = "Downcast" /\ h \in ImplDowncast
                           \/ tr = "UncheckedAnyExt" /\ h \in Implemented}

\* What a read through a reference of static type T at address a yields: the
\* payload when a T lives there, anything when the bytes are another type's.
ReadAs(a, T) == IF mem[a].ty = T THEN {mem[a].val} ELSE Vals

\* unsafe { y.downcast_ref_unchecked::<T>() }, through trait tr
DowncastRefUnchecked(T, tr) ==
  /\ ~ub
  /\ r.kind \in {"&", "&mut", "Box"}
  /\ tr \in Via(r.hier)
  /\ LET p == IF tr = "Downcast"
              THEN Downcast_downcast_ref_unchecked(r, T)
              ELSE UncheckedAnyExt_downcast_ref_unchecked(r, T) IN
       \E x \in ReadAs(p.data, T) :
         res' = [NoRes EXCEPT !.op = "downcast_ref_unchecked", !.T = T,
                              !.ret = Some(p), !.read = x,
                              !.before = mem[r.data].val]
  /\ ub' = (mem[r.data].ty # T)
  /\ UNCHANGED << mem, owners, drops, r, prev, v0, lastw, tref, th, mem0 >>

\* unsafe { y.downcast_mut_unchecked::<T>() }, through trait tr
DowncastMutUnchecked(T, tr) ==
  /\ ~ub
  /\ r.kind \in {"&mut", "Box"}
  /\ tr \in Via(r.hier)
  /\ LET p == IF tr = "Downcast"
              THEN Downcast_downcast_mut_unchecked(r, T)
              ELSE UncheckedAnyExt_downcast_mut_unchecked(r, T) IN
       \E x \in ReadAs(p.data, T) :
         res' = [NoRes EXCEPT !.op = "downcast_mut_unchecked", !.T = T,
                              !.ret = Some(p), !.read = x,
                              !.before = mem[r.data].val]
  /\ ub' = (mem[r.data].ty # T)
  /\ UNCHANGED << mem, owners, drops, r, prev, v0, lastw, tref, th, mem0 >>

\* let b: Box<dyn H> = x.into_box();
IntoBox(a, b, h) ==
  /\ ~ub
  /\ r = NoRef
  /\ owners[a] = {"let"}
  /\ a # b /\ ~Live(b)
  /\ h \in Implemented
  /\ r' = IntoBox_into_box(a, b, h)
  /\ mem' = [mem EXCEPT ![b] = mem[a], ![a] = Free]
  /\ owners' = [owners EXCEPT ![a] = {}, ![b] = {"Box<dyn>"}]
  /\ res' = [NoRes EXCEPT !.op = "into_box", !.before = mem[a].val]
  /\ UNCHANGED << drops, prev, v0, lastw, ub, tref, th, mem0 >>

\* let b: Box<dyn Custom> = Box::new(x);  the caller's own boxing.
BoxNew(a, b, h) ==
  /\ ~ub
  /\ r = NoRef
  /\ owners[a] = {"let"}
  /\ a # b /\ ~Live(b)
  /\ h \notin Implemented
  /\ r' = Fat(b, mem[a].ty, h, "Box")
  /\ mem' = [mem EXCEPT ![b] = mem[a], ![a] = Free]
  /\ owners' = [owners EXCEPT ![a] = {}, ![b] = {"Box<dyn>"}]
  /\ res' = NoRes
  /\ UNCHANGED << drops, prev, v0, lastw, ub, tref, th, mem0 >>

\* unsafe { b.downcast_unchecked::<T>() }: the box is consumed.
DowncastUnchecked(T) ==
  /\ ~ub
  /\ r.kind = "Box"
  /\ r.hier \in Implemented
  /\ LET p == UncheckedAnyExt_downcast_unchecked(r, T) IN
       /\ owners' = Box_from_raw(Box_into_raw(owners, r), p)
       /\ \E x \in ReadAs(p.data, T) :
            res' = [NoRes EXCEPT !.op = "downcast_unchecked", !.T = T,
                                 !.ret = Some(p), !.read = x,
                                 !.before = r.data]
  /\ r' = NoRef
  /\ ub' = (mem[r.data].ty # T)
  /\ UNCHANGED << mem, drops, prev, v0, lastw, tref, th, mem0 >>

\* An owning handle goes out of scope: the value's destructor runs, and the
\* allocation is released when this was its last owner.
Drop(a, hnd) ==
  /\ ~ub
  /\ hnd \in owners[a]
  /\ drops < 2
  /\ hnd = "let" => r = NoRef
  /\ hnd = "Box<dyn>" => r.kind = "Box" /\ r.data = a
  /\ owners' = [owners EXCEPT ![a] = @ \ {hnd}]
  /\ mem' = IF owners[a] = {hnd} THEN [mem EXCEPT ![a] = Free] ELSE mem
  /\ r' = IF hnd = "Box<dyn>" THEN NoRef ELSE r
  /\ drops' = drops + 1
  /\ res' = NoRes
  /\ UNCHANGED << prev, v0, lastw, ub, tref, th, mem0 >>

\* ------------------------------------------------------------ type_name
\* A static type: pointer constructors ("&", "&mut", "Box") around a leaf,
\* which is a sized concrete type t or the unsized `dyn h`.
Sized(t) == [sized |-> TRUE, t |-> t, h |-> NoHier]
Dyn(h) == [sized |-> FALSE, t |-> "-", h |-> h]
Ty(w, leaf) == [wrap |-> w, leaf |-> leaf]

\* core::any::type_name::<T>() of a concrete type.  Both closures of `main`
\* print as main::{{closure}}: the name is not unique per type.
ConcreteName(t) ==
  CASE t = "i32" -> "i32"
    [] t = "String" -> "alloc::string::String"
    [] t = "closure#0" -> "main::{{closure}}"
    [] t = "closure#1" -> "main::{{closure}}"
    [] OTHER -> "?"

DynName(h) ==
  << "dyn ", IF h.base = "Custom" THEN "main::Custom"
             ELSE IF h.base = "AsAny" THEN "as_any::AsAny" ELSE "as_any::Any" >>
  \o (IF h.send THEN << " + core::marker::Send" >> ELSE << >>)
  \o (IF h.sync THEN << " + core::marker::Sync" >> ELSE << >>)

LeafName(leaf) == IF leaf.sized THEN << ConcreteName(leaf.t) >> ELSE DynName(leaf.h)

RECURSIVE WrapName(_, _)
WrapName(w, inner) ==
  IF w = << >> THEN inner
  ELSE CASE Head(w) = "&" -> << "&" >> \o WrapName(Tail(w), inner)
         [] Head(w) = "&mut" -> << "&mut " >> \o WrapName(Tail(w), inner)
         [] OTHER -> << "alloc::boxed::Box<" >> \o WrapName(Tail(w), inner) \o << ">" >>

\* core::any::type_name::<T>(): the pieces of the printed path, in order.
core_type_name(ty) == WrapName(ty.wrap, LeafName(ty.leaf))

\* Whether a call site sees AsAny's methods on a type: on `dyn h` when AsAny
\* is a supertrait of h (the methods of the trait object itself), and, where
\* the trait is imported (`use as_any::AsAny`, line 7), on every sized
\* 'static type by the blanket impl of line 75: a reference or a Box is one.
ImplAsAny(ty, imp) ==
  \/ ty.wrap = << >> /\ ~ty.leaf.sized /\ ty.leaf.h \in HasAsAny
  \/ imp /\ (ty.wrap # << >> \/ ty.leaf.sized)

\* Faulty variant: the receiver is dereferenced all the way first.
RECURSIVE Probe_deref(_, _)
Probe_deref(ty, imp) ==
  IF ty.wrap # << >> THEN Probe_deref(Ty(Tail(ty.wrap), ty.leaf), imp)
  ELSE [found |-> ImplAsAny(ty, imp), self |-> ty]

\* The Self type a call recv.type_name() selects, for a method declared
\* `fn type_name(&self)`: at each autoderef step of the receiver type, first
\* the method whose `&Self` is the step type, then the one reached by
\* taking a reference to it.
RECURSIVE Probe(_, _)
Probe(ty, imp) ==
  IF /\ ty.wrap # << >> /\ Head(ty.wrap) = "&"
     /\ ImplAsAny(Ty(Tail(ty.wrap), ty.leaf), imp)
  THEN [found |-> TRUE, self |-> Ty(Tail(ty.wrap), ty.leaf)]
  ELSE IF ImplAsAny(ty, imp) THEN [found |-> TRUE, self |-> ty]
  ELSE IF ty.wrap # << >> THEN Probe(Ty(Tail(ty.wrap), ty.leaf), imp)
  ELSE [found |-> FALSE, self |-> ty]

\* T: StdAny asks for T: 'static.  The references of this program borrow
\* `let` bindings, so a reference type is not 'static and a call that selects
\* the impl for one is rejected; a Box<dyn h> is 'static.
RECURSIVE IsStatic(_)
IsStatic(w) ==
  IF w = << >> THEN TRUE ELSE Head(w) = "Box" /\ IsStatic(Tail(w))

\* AsAny::type_name for the selected Self: a `dyn h` dispatches through the
\* vtable to the impl for the concrete type; a sized Self names itself.
\* Faulty variant: the name of the static Self, without the dispatch.
AsAny_type_name_static(self, vtable) == core_type_name(self)

AsAny_type_name(self, vtable) ==
  IF self.wrap = << >> /\ ~self.leaf.sized
  THEN core_type_name(Ty(<< >>, Sized(vtable)))
  ELSE core_type_name(self)

\* The receiver expressions of a call of type_name.
Forms == {"x", "&x", "&dyn", "&mut dyn", "Box<dyn>", "*dyn"}

FormWrap(f) ==
  CASE f = "&x" -> << "&" >>
    [] f = "&dyn" -> << "&" >>
    [] f = "&mut dyn" -> << "&mut" >>
    [] f = "Box<dyn>" -> << "Box" >>
    [] OTHER -> << >>

\* Forms that reach the value directly or through a shared trait object.
PlainForms == {"x", "&x", "&dyn", "*dyn"}

\* A call on the value itself or on a trait object that has AsAny's methods.
Plain(c) == c.form \in PlainForms /\ (c.form \in {"&dyn", "*dyn"} => c.hier \in HasAsAny)

\* recv.type_name() with the value at address a as the underlying value, at
\* a call site that imports AsAny (imp) or not.
TypeName(f, a, imp) ==
  /\ ~ub
  /\ Live(a)
  /\ IF f \in {"x", "&x"}
     THEN owners[a] = {"let"} /\ r.kind \in {"none", "&"}
     ELSE /\ r.data = a
          /\ f = "&dyn" => r.kind = "&"
          /\ f = "&mut dyn" => r.kind = "&mut"
          /\ f = "Box<dyn>" => r.kind = "Box"
  /\ LET recv == Ty(FormWrap(f), IF f \in {"x", "&x"} THEN Sized(mem[a].ty)
                                 ELSE Dyn(r.hier))
         m == Probe(recv, imp)
         n == AsAny_type_name(m.self, r.vtable) IN
       /\ m.found
       /\ IsStatic(m.self.wrap)
       /\ res' = [NoRes EXCEPT !.op = "type_name", !.form = f, !.name = n,
                               !.T = mem[a].ty, !.before = mem[a].val, !.b = imp,
                               !.hier = IF f \in {"x", "&x"} THEN NoHier ELSE r.hier]
       /\ prev' = IF res.op = "type_name" /\ Plain(res)
                  THEN [ty |-> res.T, name |-> res.name, val |-> res.before]
                  ELSE prev
  /\ UNCHANGED << mem, owners, drops, r, v0, lastw, ub, tref, th, mem0 >>

\* ------------------------------------------------------- concurrent use
\* Threads that hold shared trait-object references and call the &self
\* methods.  A call of is / downcast_ref runs as its three steps: as_any()
\* through the vtable, type_id() through the vtable of the dyn Any, and the
\* comparison with TypeId::of::<T>(); type_name is one vtable call.
SharedOps == {"is", "downcast_ref", "type_name"}

\* Faulty variant: every call goes through one shared "current" reference.
ThreadSelf_shared(t) == tref[1]

\* The `self` of thread t's call.
ThreadSelf(t) == tref[t]

\* The types the threads' values and requests are drawn from.
ShareTypes == {"i32", "String"}

\* A value of type t1 is built at address 1 and values of type t2 at the
\* others; every thread borrows a `&dyn h`: all of them the value at
\* address 1 (same), or thread t the value at address t (wrapping round).
ShareAddr(t, same) == IF same THEN 1 ELSE ((t - 1) % MaxAddr) + 1

Share(t1, t2, h, same) ==
  /\ ~ub
  /\ \A a \in Addr : ~Live(a)
  /\ r = NoRef
  /\ \A t \in Threads : tref[t] = NoRef
  /\ LET m == [a \in Addr |-> [ty |-> IF a = 1 THEN t1 ELSE t2,
                               val |-> a % (MaxVal + 1)]] IN
       /\ mem' = m
       /\ mem0' = m
       /\ tref' = [t \in Threads |->
                    Fat(ShareAddr(t, same), m[ShareAddr(t, same)].ty, h, "&")]
  /\ owners' = [a \in Addr |-> {"let"}]
  /\ th' = [t \in Threads |-> Idle]
  /\ UNCHANGED << drops, r, res, prev, v0, lastw, ub >>

Call(t, op, T) ==
  /\ tref[t] # NoRef
  /\ th[t].pc \in {"idle", "done"}
  /\ op # "type_name" => T # "-"
  /\ op = "type_name" => T = "-"
  /\ th' = [th EXCEPT ![t] = [Idle EXCEPT !.pc = "as_any", !.op = op, !.T = T]]
  /\ UNCHANGED << mem, mem0, owners, drops, r, res, prev, v0, lastw, ub, tref >>

StepAsAny(t) ==
  /\ th[t].pc = "as_any"
  /\ IF th[t].op = "type_name"
     THEN th' = [th EXCEPT ![t].pc = "done",
                           ![t].name = AsAny_type_name(Ty(<< >>, Dyn(ThreadSelf(t).hier)),
                                                       ThreadSelf(t).vtable)]
     ELSE th' = [th EXCEPT ![t].pc = "type_id", ![t].any = as_any(ThreadSelf(t))]
  /\ UNCHANGED << mem, mem0, owners, drops, r, res, prev, v0, lastw, ub, tref >>

StepTypeId(t) ==
  /\ th[t].pc = "type_id"
  /\ th' = [th EXCEPT ![t].pc = "cmp", ![t].tid = TypeIdOf(th[t].any.vtable)]
  /\ UNCHANGED << mem, mem0, owners, drops, r, res, prev, v0, lastw, ub, tref >>

StepCmp(t) ==
  /\ th[t].pc = "cmp"
  /\ LET same == th[t].tid = TypeIdOf(th[t].T) IN
       th' = [th EXCEPT ![t].pc = "done", ![t].b = same,
                        ![t].ret = IF th[t].op = "downcast_ref" /\ same
                                   THEN Some(Thin(th[t].any.data, th[t].T))
                                   ELSE None]
  /\ UNCHANGED << mem, mem0, owners, drops, r, res, prev, v0, lastw, ub, tref >>

\* ------------------------------------------------------- specifications
Next ==
  \/ \E t \in Types, v \in Vals, a \in Addr : Construct(t, v, a)
  \/ \E a \in Addr, h \in Hier, k \in {"&", "&mut"} : Coerce(a, h, k)
  \/ \E T \in Types : Is(T)
  \/ \E T \in Types : DowncastRef(T)
  \/ \E T \in Types : DowncastMut(T)
  \/ \E v \in Vals : Write(v)
  \/ Release
  \/ \E T \in Types, tr \in Traits : DowncastRefUnchecked(T, tr)
  \/ \E T \in Types, tr \in Traits : DowncastMutUnchecked(T, tr)
  \/ \E a, b \in Addr, h \in Hier : IntoBox(a, b, h)
  \/ \E a, b \in Addr, h \in Hier : BoxNew(a, b, h)
  \/ \E T \in Types : DowncastUnchecked(T)
  \/ \E a \in Addr, hnd \in {"let", "Box<dyn>", "Box<T>"} : Drop(a, hnd)

Spec == Init /\ [][Next]_vars

\* The program that only asks for type names.
NextName ==
  \/ \E t \in Types, v \in Vals, a \in Addr : Construct(t, v, a)
  \/ \E a \in Addr, h \in Hier, k \in {"&", "&mut"} : Coerce(a, h, k)
  \/ Release
  \/ \E a, b \in Addr, h \in Hier : IntoBox(a, b, h)
  \/ \E a, b \in Addr, h \in Hier : BoxNew(a, b, h)
  \/ \E a \in Addr, hnd \in {"let", "Box<dyn>", "Box<T>"} : Drop(a, hnd)
  \/ \E f \in Forms, a \in Addr, imp \in BOOLEAN : TypeName(f, a, imp)

SpecName == Init /\ [][NextName]_vars

\* The program whose threads share trait objects.
ShareHier == {h \in Hier : h.base \in {"AsAny", "Custom"} /\ h.sync}

NextShared ==
  \/ \E t1, t2 \in ShareTypes, h \in ShareHier, same \in BOOLEAN :
        Share(t1, t2, h, same)
  \/ \E t \in Threads, op \in SharedOps, T \in ShareTypes \cup {"-"} :
        Call(t, op, T)
  \/ \E t \in Threads : StepAsAny(t)
  \/ \E t \in Threads : StepTypeId(t)
  \/ \E t \in Threads : StepCmp(t)

SpecShared == Init /\ [][NextShared]_vars

\* --------------------------------------------------------------- claims
Held == r.kind \in {"&", "&mut", "Box"}

\* C1: for a value of concrete type T behind a trait object, is::<T>() is
\* true and is::<U>() is false for every U # T, in every state reached by
\* is, downcast_ref, downcast_mut and writes through downcast_mut; and is
\* can always be called (it has no failing outcome).
C1_IsIffConcreteType ==
  /\ (~ub /\ res.op = "is") => (res.b <=> res.T = mem[r.data].ty)
  /\ (~ub /\ Held /\ r.hier \in ImplDowncast) => \A T \in Types : ENABLED Is(T)

C1_Witness ==
  /\ ~ub /\ res.op = "is" /\ ~res.b
  /\ lastw # -1 /\ lastw # v0
  /\ r.hier.base = "Custom"

\* C2: downcast_ref::<T>() returns Some of a reference to the very same
\* value exactly when is::<T>() is true, and None otherwise, with the value
\* left as it was.
C2_DowncastRefIffIs ==
  (~ub /\ res.op = "downcast_ref") =>
    /\ res.ret = (IF Downcast_is(r, res.T) THEN Some(Thin(r.data, res.T)) ELSE None)
    /\ Downcast_is(r, res.T) <=> res.T = mem[r.data].ty
    /\ mem[r.data].val = res.before
    /\ mem[r.data].val = Expected

C2_Witness ==
  /\ ~ub /\ res.op = "downcast_ref" /\ res.ret = None
  /\ mem[r.data].ty = "i32" /\ res.T = "String"

\* C3: downcast_mut::<T>() on a value of concrete type T returns Some(&mut T)
\* and a write through it is what a later downcast_ref::<T>() reads; for
\* U # T, downcast_mut::<U>() returns None and the value stays as it was.
C3_MutationObserved ==
  /\ (~ub /\ res.op = "downcast_mut") =>
       /\ res.T = mem[r.data].ty => res.ret = Some(Thin(r.data, res.T))
       /\ res.T # mem[r.data].ty => res.ret = None
       /\ mem[r.data].val = Expected
  /\ (~ub /\ res.op = "downcast_ref" /\ res.ret # None) => res.read = Expected

C3_Witness ==
  /\ ~ub /\ res.op = "downcast_ref" /\ res.ret # None
  /\ lastw # -1 /\ lastw # v0 /\ res.read = lastw

\* C4: when the value's concrete type is exactly T, the unchecked downcasts
\* return the reference the checked ones return (same address, same
\* contents), and a write through it lands in the value.
C4_UncheckedEqualsChecked ==
  /\ (~ub /\ res.op = "downcast_ref_unchecked") =>
       /\ res.ret = Downcast_downcast_ref(r, res.T)
       /\ res.read = Expected
  /\ (~ub /\ res.op = "downcast_mut_unchecked") =>
       /\ res.ret = Downcast_downcast_mut(r, res.T)
       /\ res.read = Expected
       /\ mem[r.data].val = Expected

C4_Witness ==
  /\ ~ub /\ res.op = "downcast_mut_unchecked"
  /\ lastw # -1 /\ lastw # v0 /\ res.read = lastw
  /\ r.hier.base = "Custom"

\* The built-in trait object with the same qualifiers on the same value.
BuiltIn(self) == [self EXCEPT !.hier.base = "AsAny"]

\* C5: through a `dyn Custom` (bare, + Send, + Sync, + Send + Sync) the calls
\* is, downcast_ref and downcast_mut give what the same calls give through
\* the built-in `dyn AsAny` with the same qualifiers on the same value.
C5_CustomAsBuiltIn ==
  (~ub /\ Held /\ r.hier.base = "Custom") =>
    /\ res.op = "is" => res.b = Downcast_is(BuiltIn(r), res.T)
    /\ res.op = "is" => res.b = (res.T = mem[r.data].ty)
    /\ res.op = "downcast_ref" => res.ret = Downcast_downcast_ref(BuiltIn(r), res.T)
    /\ res.op = "downcast_mut" => res.ret = Downcast_downcast_mut(BuiltIn(r), res.T)
    /\ \A T \in Types : ENABLED Is(T) /\ ENABLED DowncastRef(T)
    /\ r.kind # "&" => \A T \in Types : ENABLED DowncastMut(T)

C5_Witness ==
  /\ ~ub /\ res.op = "downcast_mut" /\ res.ret # None
  /\ r.hier = [base |-> "Custom", send |-> TRUE, sync |-> TRUE]

\* C8: into_box followed by downcast_unchecked::<T>() gives a Box<T> owning
\* the box's allocation (same address, nothing copied) with the content of
\* x; the polymorphic box is consumed; the value has one owner throughout
\* and its destructor runs at most once.
C8_BoxRoundTrip ==
  /\ \A a \in Addr : Cardinality(owners[a]) <= 1
  /\ Cardinality({a \in Addr : Live(a)}) <= 1
  /\ drops <= 1
  /\ (~ub /\ res.op = "into_box") =>
       /\ r.kind = "Box" /\ owners[r.data] = {"Box<dyn>"}
       /\ mem[r.data] = [ty |-> r.vtable, val |-> Expected]
       /\ res.before = Expected
  /\ (~ub /\ res.op = "downcast_unchecked") =>
       /\ res.ret = Some(Thin(res.before, res.T))
       /\ owners[res.before] = {"Box<T>"}
       /\ mem[res.before] = [ty |-> res.T, val |-> Expected]
       /\ res.read = Expected
       /\ r = NoRef
       /\ drops = 0

C8_Witness ==
  /\ ~ub /\ res.op = "downcast_unchecked"
  /\ owners[res.before] = {"Box<T>"}
  /\ lastw # -1 /\ lastw # v0

OnCustom == ~ub /\ Held /\ r.hier.base = "Custom"

\* The operations of a `dyn Custom` behind a shared or exclusive reference.
C9_SharedAndExclusiveOps ==
  OnCustom =>
    /\ \A T \in Types : ENABLED Is(T) /\ ENABLED DowncastRef(T)
    /\ \A T \in Types : ENABLED DowncastRefUnchecked(T, "Downcast")
    /\ ENABLED TypeName("*dyn", r.data, TRUE)
    /\ r.kind # "&" =>
         \A T \in Types : /\ ENABLED DowncastMut(T)
                          /\ ENABLED DowncastMutUnchecked(T, "Downcast")

\* C9 as stated: on a `dyn Custom` every operation of the public surface can
\* be called, the owned unchecked downcast of a Box<dyn Custom> included.
C9_AllOperationsOnCustom ==
  /\ C9_SharedAndExclusiveOps
  /\ (OnCustom /\ r.kind = "Box") => \A T \in Types : ENABLED DowncastUnchecked(T)

\* C9 as amended: every operation but the owned unchecked downcast, which
\* only the hierarchies of lines 182-190 have.
C9_AllButOwnedOnCustom ==
  /\ C9_SharedAndExclusiveOps
  /\ (OnCustom /\ r.kind = "Box") => \A T \in Types : ~ENABLED DowncastUnchecked(T)
  /\ (~ub /\ r.kind = "Box" /\ r.hier \in Implemented) =>
       \A T \in Types : ENABLED DowncastUnchecked(T)

C9_Witness ==
  /\ OnCustom /\ r.kind = "Box"
  /\ res.op = "downcast_mut_unchecked"

BothPlain == res.op = "type_name" /\ Plain(res) /\ prev # NoPrev

\* C6 as amended: type_name, called directly or through a trait object,
\* gives equal strings for two values of the same concrete type.
C6_SameTypeSameName == (BothPlain /\ prev.ty = res.T) => prev.name = res.name

\* C6 as stated: equal strings for two values of the same concrete type and
\* different strings for values of distinct types.
C6_NameIdentifiesType ==
  /\ C6_SameTypeSameName
  /\ (BothPlain /\ prev.ty # res.T) => prev.name # res.name

C6_Witness ==
  /\ BothPlain /\ prev.ty = res.T /\ prev.val # res.before
  /\ res.form = "&dyn" /\ res.hier.base = "Custom"

OnAsAny == res.op = "type_name" /\ (res.hier = NoHier \/ res.hier \in HasAsAny)

\* C7 as stated: through a plain reference, a shared or exclusive trait
\* object reference, or a Box of the trait object, type_name gives the name
\* of the underlying concrete type.
C7_NameOfUnderlying ==
  (OnAsAny /\ res.form \in {"&x", "&dyn", "&mut dyn", "Box<dyn>"}) =>
    res.name = << ConcreteName(res.T) >>

\* C7 as amended: so it is for the value, a plain reference, a shared trait
\* object reference and an explicitly dereferenced trait object, and for
\* every receiver where AsAny is not imported; where it is imported, the
\* call on the Box itself names the Box type, and the call on the exclusive
\* reference itself is rejected.
C7_NameByReceiver ==
  /\ (OnAsAny /\ res.form \in PlainForms) => res.name = << ConcreteName(res.T) >>
  /\ (OnAsAny /\ res.form \in {"Box<dyn>", "&mut dyn"} /\ ~res.b) =>
       res.name = << ConcreteName(res.T) >>
  /\ (OnAsAny /\ res.form = "Box<dyn>" /\ res.b) =>
       /\ res.name = << "alloc::boxed::Box<" >> \o DynName(res.hier) \o << ">" >>
       /\ res.name # << ConcreteName(res.T) >>
  /\ (OnAsAny /\ res.form = "&mut dyn") => ~res.b
  /\ (~ub /\ r.kind = "&mut") => ~ENABLED TypeName("&mut dyn", r.data, TRUE)

C7_Witness ==
  /\ OnAsAny /\ res.form = "*dyn" /\ r.kind = "Box" /\ res.b
  /\ res.name = << "alloc::string::String" >>

\* Thread t's finished call returned what the call returns when run alone.
Alone(t) ==
  CASE th[t].op = "is" ->
         /\ th[t].b = Downcast_is(tref[t], th[t].T)
         /\ th[t].b = (th[t].T = mem0[tref[t].data].ty)
    [] th[t].op = "downcast_ref" ->
         th[t].ret = Downcast_downcast_ref(tref[t], th[t].T)
    [] th[t].op = "type_name" ->
         th[t].name = << ConcreteName(mem0[tref[t].data].ty) >>
    [] OTHER -> FALSE

\* C10: calls of is, downcast_ref and type_name that threads make at the
\* same time, on the same value or on different ones, each return what the
\* call returns alone, and no value changes.
C10_SharedCallsIndependent ==
  /\ mem = mem0
  /\ \A t \in Threads : th[t].pc = "done" => Alone(t)

C10_Witness ==
  /\ \A t \in Threads : th[t].pc = "done"
  /\ \E t, u \in Threads :
       /\ t # u /\ tref[t].data = tref[u].data
       /\ th[t].op = "downcast_ref" /\ th[t].ret # None
       /\ th[u].op = "is" /\ ~th[u].b
====
